---- MODULE Spec2Model ----
(***************************************************************************)
(* Model of the two reducers of rr-ts-d3-starter-kit.                      *)
(*                                                                         *)
(*  - the graph-screen reducer (handleActions over CHANGE_DATE_FROM_VALUE  *)
(*    and CHANGE_DATE_TO_VALUE) together with the module-level code that   *)
(*    builds its initial state (randomDateTimePoints);                     *)
(*  - randomDotsScreenReducer.                                             *)
(*                                                                         *)
(* JavaScript objects are modelled by reference: every moment, point,      *)
(* array and state object lives in a heap (a function from addresses to    *)
(* contents), so that aliasing and in-place writes are visible.            *)
(*                                                                         *)
(* Time is counted in minutes of local time since the start of the first   *)
(* day of the valid range (2010-05-01T00:00 with the dates of the source). *)
(*                                                                         *)
(* Specifications:                                                         *)
(*  - SpecLoad: module load (randomDateTimePoints, initialState) with the  *)
(*    dates of the source and on shorter calendars;                        *)
(*  - Spec: module load followed by dispatches of the two commands. The    *)
(*    source's range holds 7776 points in every state of the store, so the *)
(*    store is explored on calendars with the same days of the month and   *)
(*    a shorter day; the handlers compare the payload with the two range   *)
(*    moments and never read a point;                                      *)
(*  - DotsSpec: randomDotsScreenReducer.                                   *)
(***************************************************************************)
EXTENDS Integers, Sequences, FiniteSets, TLC

VARIABLES
  pc,            \* "loop": in randomDateTimePoints; "ready": store built; "off": not loaded
  moments,       \* heap of moment objects: address -> time (minutes)
  momentBrk,     \* first moment address above the objects built at module load
  pointObjs,     \* heap of DateTimePoint objects: address -> [time: moment address, value]
  arrays,        \* heap of arrays: address -> sequence of point addresses
  stateObjs,     \* heap of GraphScreenState objects: address -> [dateFrom, dateTo, points]
  referenceDate, \* randomDateTimePoints: address of the local moment
  result,        \* randomDateTimePoints: address of the local array
  store,         \* address of the state object the store currently holds
  prior,         \* address of the state object passed to the last reducer call (0: none)
  priorObj,      \* contents of that state object when the reducer was called
  priorView,     \* value of that state object (see View) when the reducer was called
  generated,     \* value of the points sequence when the initial state was built
  lastAction,    \* [type, payload] of the last dispatched action (payload as a time)
  lastFrom,      \* candidate of the last CHANGE_DATE_FROM_VALUE not before the range minimum
  lastTo,        \* candidate of the last CHANGE_DATE_TO_VALUE not after the range maximum
  dots,          \* state held for randomDotsScreenReducer: field name -> value
  dotsPrior,     \* the state passed to the last randomDotsScreenReducer call
  dotsAction,    \* the last action given to randomDotsScreenReducer
  dotsLast       \* payload of the last action of each setting type (history)

graphVars == <<pc, moments, momentBrk, pointObjs, arrays, stateObjs, referenceDate,
               result, store, prior, priorObj, priorView, generated, lastAction,
               lastFrom, lastTo>>
dotsVars == <<dots, dotsPrior, dotsAction, dotsLast>>
vars == <<graphVars, dotsVars>>

----------------------------------------------------------------------------
(* Bounds of the model.                                                    *)

\* Candidates stray at most MaxSkew minutes from each edge of the valid range.
MaxSkew == 1
\* The store is explored on calendars whose days last 1..MaxDayLen minutes.
MaxDayLen == 2
\* The iterations of the generator's loop that make one step of the model.
LoopChunk == 4096
\* Module load alone is also explored on calendars whose days last
\* 1..MaxLoadDayLen minutes.
MaxLoadDayLen == 40

----------------------------------------------------------------------------
(* Program constants (part_000 lines 13-18).                               *)

\* The four module-level moment objects, named by their addresses in the heap.
DATE_RANGE_MIN_VALUE == 1
DATE_RANGE_MAX_VALUE == 2
DATE_WINDOW_FROM_VALUE == 3
DATE_WINDOW_TO_VALUE == 4
SAMPLES_EVERY_MINUTE == 5
\* Address of the module-level initialState object.
initialState == 1

\* The days of May 2010 the four moments are built from.
RangeMinDay == 1
RangeMaxDay == 28
WindowFromDay == 3
WindowToDay == 5

\* The times of the four moments when a day lasts len minutes (time 0 is the
\* start of the range's first day).
Calendar(len) ==
  [min  |-> (RangeMinDay - RangeMinDay) * len,
   max  |-> (RangeMaxDay - RangeMinDay) * len,
   from |-> (WindowFromDay - RangeMinDay) * len,
   to   |-> (WindowToDay - RangeMinDay) * len]

MinutesPerDay == 24 * 60
RealCalendar == Calendar(MinutesPerDay)

NoAction == [type |-> "none", payload |-> 0]

----------------------------------------------------------------------------
(* moment.js and lodash primitives used by the code.                       *)

hours(t) == (t \div 60) % 24
minutes(t) == t % 60

isBefore(m, a, b) == m[a] < m[b]
isAfter(m, a, b) == m[a] > m[b]

\* A fresh address of a small heap: the least address not in use.
FreshAddr(used) == CHOOSE a \in 1..(Cardinality(used) + 1) : a \notin used

\* A fresh moment address at or above brk: the least one not in use.
FreshMoment(m, brk) ==
  CHOOSE a \in brk..(brk + Cardinality(DOMAIN m)) : a \notin DOMAIN m

\* new moment with time t (a heap h is [m, brk, a, s]).
NewMoment(h, t) ==
  LET n == FreshMoment(h.m, h.brk)
  IN [h |-> [h EXCEPT !.m = h.m @@ (n :> t)], addr |-> n]

\* moment#clone(): a new moment object with the same time.
MomentClone(h, a) == NewMoment(h, h.m[a])

\* _.clone(array): a new array object holding the same elements (shallow).
LodashClone(h, a) ==
  LET n == FreshAddr(DOMAIN h.a)
  IN [h |-> [h EXCEPT !.a = h.a @@ (n :> h.a[a])], addr |-> n]

\* An object literal { dateFrom, dateTo, points }: a new state object.
NewState(h, from, to, pts) ==
  LET n == FreshAddr(DOMAIN h.s)
  IN [h |-> [h EXCEPT !.s = h.s @@ (n :> [dateFrom |-> from, dateTo |-> to, points |-> pts])],
      addr |-> n]

Heap == [m |-> moments, brk |-> momentBrk, a |-> arrays, s |-> stateObjs]

----------------------------------------------------------------------------
(* Values of objects (what a consumer reading the object sees).            *)

PointView(h, p) == [time |-> h.m[pointObjs[p].time], value |-> pointObjs[p].value]

PointsView(h, arr) == [i \in 1..Len(h.a[arr]) |-> PointView(h, h.a[arr][i])]

View(h, s) ==
  [dateFrom |-> h.m[h.s[s].dateFrom],
   dateTo   |-> h.m[h.s[s].dateTo],
   points   |-> PointsView(h, h.s[s].points)]

\* Objects reachable from a state object, tagged by kind.
Reach(h, s) ==
  LET o == h.s[s]
      ps == {h.a[o.points][i] : i \in 1..Len(h.a[o.points])}
  IN {<<"state", s>>, <<"moment", o.dateFrom>>, <<"moment", o.dateTo>>,
      <<"array", o.points>>}
     \cup {<<"point", p>> : p \in ps}
     \cup {<<"moment", pointObjs[p].time>> : p \in ps}

----------------------------------------------------------------------------
(* Faulty variants of the handlers, used to show that the properties below *)
(* depend on the handlers' code.                                           *)

\* CHANGE_DATE_FROM_VALUE without its guard.
MutFromNoGuard(h, state, payload) ==
  LET c == MomentClone(h, h.s[state].dateTo)
      p == LodashClone(c.h, h.s[state].points)
      n == NewState(p.h, payload, c.addr, p.addr)
  IN [h |-> n.h, ret |-> n.addr]

\* CHANGE_DATE_FROM_VALUE guarded by isSameOrBefore.
MutFromSameOrBefore(h, state, payload) ==
  IF h.m[payload] <= h.m[DATE_RANGE_MIN_VALUE]
  THEN [h |-> h, ret |-> state]
  ELSE MutFromNoGuard(h, state, payload)

\* CHANGE_DATE_FROM_VALUE assigning state.dateFrom in place and returning state.
MutFromInPlace(h, state, payload) ==
  IF isBefore(h.m, payload, DATE_RANGE_MIN_VALUE)
  THEN [h |-> h, ret |-> state]
  ELSE [h |-> [h EXCEPT !.s[state].dateFrom = payload], ret |-> state]

\* CHANGE_DATE_FROM_VALUE keeping only the points not before the new dateFrom.
MutFromFilter(h, state, payload) ==
  IF isBefore(h.m, payload, DATE_RANGE_MIN_VALUE)
  THEN [h |-> h, ret |-> state]
  ELSE LET c == MomentClone(h, h.s[state].dateTo)
           a == FreshAddr(DOMAIN c.h.a)
           kept == SelectSeq(h.a[h.s[state].points],
                             LAMBDA q : ~isBefore(h.m, pointObjs[q].time, payload))
           n == NewState([c.h EXCEPT !.a = c.h.a @@ (a :> kept)], payload, c.addr, a)
       IN [h |-> n.h, ret |-> n.addr]

\* CHANGE_DATE_FROM_VALUE also rejecting a candidate after the current dateTo.
MutFromOrdered(h, state, payload) ==
  IF \/ isBefore(h.m, payload, DATE_RANGE_MIN_VALUE)
     \/ isAfter(h.m, payload, h.s[state].dateTo)
  THEN [h |-> h, ret |-> state]
  ELSE MutFromNoGuard(h, state, payload)

\* CHANGE_DATE_TO_VALUE also rejecting a candidate before the current dateFrom.
MutToOrdered(h, state, payload) ==
  IF \/ isAfter(h.m, payload, DATE_RANGE_MAX_VALUE)
     \/ isBefore(h.m, payload, h.s[state].dateFrom)
  THEN [h |-> h, ret |-> state]
  ELSE LET c == MomentClone(h, h.s[state].dateFrom)
           p == LodashClone(c.h, h.s[state].points)
           n == NewState(p.h, c.addr, payload, p.addr)
       IN [h |-> n.h, ret |-> n.addr]

----------------------------------------------------------------------------
(* The reducer's two handlers (part_000 lines 43-67).                      *)

ChangeDateFromHandler(h, state, payload) ==
  IF isBefore(h.m, payload, DATE_RANGE_MIN_VALUE)
  THEN [h |-> h, ret |-> state]
  ELSE LET c == MomentClone(h, h.s[state].dateTo)
           p == LodashClone(c.h, h.s[state].points)
           n == NewState(p.h, payload, c.addr, p.addr)
       IN [h |-> n.h, ret |-> n.addr]

ChangeDateToHandler(h, state, payload) ==
  IF isAfter(h.m, payload, DATE_RANGE_MAX_VALUE)
  THEN [h |-> h, ret |-> state]
  ELSE LET c == MomentClone(h, h.s[state].dateFrom)
           p == LodashClone(c.h, h.s[state].points)
           n == NewState(p.h, c.addr, payload, p.addr)
       IN [h |-> n.h, ret |-> n.addr]

----------------------------------------------------------------------------
(* Module load: randomDateTimePoints and initialState.                     *)

DotsInitialState == [f \in {"width", "height", "color"} |->
                       CASE f = "width" -> 800 [] f = "height" -> 600
                         [] OTHER -> "lightblue"]

DotsInit ==
  /\ dots = DotsInitialState
  /\ dotsPrior = DotsInitialState
  /\ dotsAction = [type |-> "none"]
  /\ dotsLast = [width |-> 800, height |-> 600, text |-> <<>>]

\* The four constants exist; referenceDate = DATE_RANGE_MIN_VALUE.clone(); result = [].
InitWith(cal) ==
  /\ pc = "loop"
  /\ moments = <<cal.min, cal.max, cal.from, cal.to, cal.min>>
  /\ momentBrk = 6
  /\ referenceDate = 5
  /\ pointObjs = <<>>
  /\ arrays = (1 :> <<>>)
  /\ result = 1
  /\ stateObjs = <<>>
  /\ store = 0
  /\ prior = 0
  /\ priorObj = <<>>
  /\ priorView = <<>>
  /\ generated = <<>>
  /\ lastAction = NoAction
  /\ lastFrom = cal.from
  /\ lastTo = cal.to
  /\ DotsInit

\* The store, on the scaled calendars.
Init == \E len \in 1..MaxDayLen : InitWith(Calendar(len))

\* Module load with the dates of the source, and on the scaled calendars.
InitLoad == \E cal \in {RealCalendar} \cup {Calendar(len) : len \in 1..MaxLoadDayLen} :
              InitWith(cal)

\* The loop's condition written with isSameOrBefore (a faulty variant).
MutLoopCond(m) == ~isAfter(m, referenceDate, DATE_RANGE_MAX_VALUE)

\* The while loop's condition (line 23), read in the moment heap m.
LoopCond(m) == isBefore(m, referenceDate, DATE_RANGE_MAX_VALUE)

\* The loop's body (lines 24-25) on the objects L = [m, brk, p, a] (moments, next
\* moment address, points, arrays): push { time: referenceDate.clone(), value },
\* then referenceDate.add("minutes", SAMPLES_EVERY_MINUTE).
LoopBody(L) ==
  LET t == L.m[referenceDate]
  IN [m   |-> [Append(L.m, t) EXCEPT ![referenceDate] = t + SAMPLES_EVERY_MINUTE],
      brk |-> L.brk + 1,
      p   |-> Append(L.p, [time |-> L.brk, value |-> 180 * hours(t) + minutes(t)]),
      a   |-> [L.a EXCEPT ![result] = Append(@, Len(L.p) + 1)]]

\* At most n iterations of the loop (n is halved to keep the evaluation shallow:
\* the first half of the iterations, then the rest).
RECURSIVE Iterate(_, _)
Iterate(L, n) ==
  IF n = 0 \/ ~LoopCond(L.m) THEN L
  ELSE IF n = 1 THEN LoopBody(L)
  ELSE Iterate(Iterate(L, n \div 2), n - (n \div 2))

\* The loop runs on (lines 23-26); a step of the model is up to LoopChunk
\* iterations.
LoopStep ==
  /\ pc = "loop"
  /\ LoopCond(moments)
  /\ \E L \in {Iterate([m |-> moments, brk |-> momentBrk, p |-> pointObjs, a |-> arrays],
                       LoopChunk)} :
       /\ moments' = L.m
       /\ momentBrk' = L.brk
       /\ pointObjs' = L.p
       /\ arrays' = L.a
  /\ UNCHANGED <<pc, stateObjs, referenceDate, result, store, prior, priorObj, priorView,
                 generated, lastAction, lastFrom, lastTo, dotsVars>>

\* The loop ends, initialState is built and becomes the store's state (lines 27-35, 68).
LoopExit ==
  /\ pc = "loop"
  /\ ~LoopCond(moments)
  /\ pc' = "ready"
  /\ stateObjs' = (initialState :>
                     [dateFrom |-> DATE_WINDOW_FROM_VALUE, dateTo |-> DATE_WINDOW_TO_VALUE, points |-> result])
  /\ store' = initialState
  /\ generated' = PointsView(Heap, result)
  /\ UNCHANGED <<moments, momentBrk, pointObjs, arrays, referenceDate, result, prior,
                 priorObj, priorView, lastAction, lastFrom, lastTo, dotsVars>>

----------------------------------------------------------------------------
(* Dispatch of the two commands.                                           *)

Candidates ==
  {moments[DATE_RANGE_MIN_VALUE] + k : k \in (0 - MaxSkew)..MaxSkew}
  \cup {moments[DATE_RANGE_MAX_VALUE] + k : k \in (0 - MaxSkew)..MaxSkew}
  \cup {moments[DATE_WINDOW_TO_VALUE] + MaxSkew}

\* The distinct elements of a sequence, in order of first occurrence.
Distinct(seq) ==
  LET F[i \in 0..Len(seq)] ==
        IF i = 0 THEN <<>>
        ELSE IF \E j \in 1..Len(F[i - 1]) : F[i - 1][j] = seq[i]
             THEN F[i - 1]
             ELSE Append(F[i - 1], seq[i])
  IN F[Len(seq)]

\* The address an object listed in live (a sequence of distinct addresses) gets
\* when the live objects are laid out from base on; 0 for an object not listed.
Moved(live, base, a) ==
  IF \E i \in 1..Len(live) : live[i] = a
  THEN base + (CHOOSE i \in 1..Len(live) : live[i] = a) - 1
  ELSE 0

\* Memory management after a call of the reducer. The objects a later dispatch
\* can still reach are those built at module load, the state the reducer returned
\* and the state it was given (the caller's reference); everything else is
\* reclaimed, and the surviving objects are laid out in a fixed order (addresses
\* are not observable by the program). Yields the heap and the address map.
Sweep(h, roots) ==
  LET S == Distinct(roots)
      refs == [i \in 1..(2 * Len(S)) |->
                 IF i % 2 = 1 THEN h.s[S[(i + 1) \div 2]].dateFrom
                 ELSE h.s[S[i \div 2]].dateTo]
      M == Distinct(SelectSeq(refs, LAMBDA a : a >= h.brk))
      A == Distinct([i \in 1..Len(S) |-> h.s[S[i]].points])
      mvM(a) == IF a < h.brk THEN a ELSE Moved(M, h.brk, a)
      mvO(o) == [dateFrom |-> mvM(o.dateFrom), dateTo |-> mvM(o.dateTo),
                 points |-> Moved(A, 1, o.points)]
  IN [m |-> [n \in 1..(h.brk + Len(M) - 1) |->
               IF n < h.brk THEN h.m[n] ELSE h.m[M[n - h.brk + 1]]],
      brk |-> h.brk,
      a |-> [n \in 1..Len(A) |-> h.a[A[n]]],
      s |-> [n \in 1..Len(S) |-> mvO(h.s[S[n]])],
      ret |-> Moved(S, 1, roots[2]),
      given |-> Moved(S, 1, roots[3]),
      givenObj |-> mvO(stateObjs[roots[3]])]

\* The store replaces its state by what the reducer returned (r); the history
\* variables record the call.
Commit(r, type, c) ==
  \E h \in {Sweep(r.h, <<initialState, r.ret, store>>)} :
     /\ moments' = h.m
     /\ arrays' = h.a
     /\ stateObjs' = h.s
     /\ store' = h.ret
     /\ prior' = h.given
     /\ priorObj' = h.givenObj
     /\ priorView' = View(Heap, store)
     /\ lastAction' = [type |-> type, payload |-> c]
     /\ UNCHANGED <<pc, momentBrk, pointObjs, referenceDate, result, generated, dotsVars>>

DispatchChangeDateFrom ==
  /\ pc = "ready"
  /\ \E c \in Candidates :
       \E a \in {NewMoment(Heap, c)} :
       \E r \in {ChangeDateFromHandler(a.h, store, a.addr)} :
          /\ Commit(r, "CHANGE_DATE_FROM_VALUE", c)
          /\ lastFrom' = IF c >= moments[DATE_RANGE_MIN_VALUE] THEN c ELSE lastFrom
          /\ UNCHANGED lastTo

DispatchChangeDateTo ==
  /\ pc = "ready"
  /\ \E c \in Candidates :
       \E a \in {NewMoment(Heap, c)} :
       \E r \in {ChangeDateToHandler(a.h, store, a.addr)} :
          /\ Commit(r, "CHANGE_DATE_TO_VALUE", c)
          /\ lastTo' = IF c <= moments[DATE_RANGE_MAX_VALUE] THEN c ELSE lastTo
          /\ UNCHANGED lastFrom

Next ==
  \/ LoopStep
  \/ LoopExit
  \/ DispatchChangeDateFrom
  \/ DispatchChangeDateTo

Spec == Init /\ [][Next]_vars

NextLoad ==
  \/ LoopStep
  \/ LoopExit

SpecLoad == InitLoad /\ [][NextLoad]_vars

----------------------------------------------------------------------------
(* randomDotsScreenReducer (reducers.ts lines 6-30).                       *)

\* { ...state, field: v }: the fields of state, with field set to v.
Spread(state, field, v) ==
  [f \in DOMAIN state \cup {field} |-> IF f = field THEN v ELSE state[f]]

\* The reducer with the height case writing width (a faulty variant).
MutDotsReducer(state, action) ==
  CASE action.type = "BLUE_SCR_SET_WIDTH" -> Spread(state, "width", action.width)
    [] action.type = "BLUE_SCR_SET_HEIGHT" -> Spread(state, "width", action.height)
    [] action.type = "BLUE_SCR_SET_TEXT" -> Spread(state, "text", action.text)
    [] OTHER -> state

randomDotsScreenReducer(state, action) ==
  CASE action.type = "BLUE_SCR_SET_WIDTH" -> Spread(state, "width", action.width)
    [] action.type = "BLUE_SCR_SET_HEIGHT" -> Spread(state, "height", action.height)
    [] action.type = "BLUE_SCR_SET_TEXT" -> Spread(state, "text", action.text)
    [] OTHER -> state

\* Payloads of the width and height actions, and of the text action.
MaxPayload == 3
Sizes == {100 * k : k \in 1..MaxPayload}
Texts == {"", "a", "b"}

\* The graph store does not run under DotsSpec.
GraphOff ==
  /\ pc = "off"
  /\ moments = <<>>
  /\ momentBrk = 1
  /\ referenceDate = 0
  /\ pointObjs = <<>>
  /\ arrays = <<>>
  /\ result = 0
  /\ stateObjs = <<>>
  /\ store = 0
  /\ prior = 0
  /\ priorObj = <<>>
  /\ priorView = <<>>
  /\ generated = <<>>
  /\ lastAction = NoAction
  /\ lastFrom = 0
  /\ lastTo = 0

DotsDispatch(action) ==
  /\ dots' = randomDotsScreenReducer(dots, action)
  /\ dotsPrior' = dots
  /\ dotsAction' = action
  /\ UNCHANGED graphVars

DotsSetWidth ==
  \E w \in Sizes :
    /\ DotsDispatch([type |-> "BLUE_SCR_SET_WIDTH", width |-> w])
    /\ dotsLast' = [dotsLast EXCEPT !.width = w]

DotsSetHeight ==
  \E h \in Sizes :
    /\ DotsDispatch([type |-> "BLUE_SCR_SET_HEIGHT", height |-> h])
    /\ dotsLast' = [dotsLast EXCEPT !.height = h]

DotsSetText ==
  \E t \in Texts :
    /\ DotsDispatch([type |-> "BLUE_SCR_SET_TEXT", text |-> t])
    /\ dotsLast' = [dotsLast EXCEPT !.text = <<t>>]

\* Any action of another type (the store's own init action, another screen's action).
DotsOther ==
  /\ DotsDispatch([type |-> "OTHER"])
  /\ UNCHANGED dotsLast

DotsNext ==
  \/ DotsSetWidth
  \/ DotsSetHeight
  \/ DotsSetText
  \/ DotsOther

DotsSpecInit ==
  /\ GraphOff
  /\ DotsInit

DotsSpec == DotsSpecInit /\ [][DotsNext]_vars

----------------------------------------------------------------------------
(* Properties of the graph store.                                          *)

Ready == pc = "ready"
Dispatched == Ready /\ lastAction.type # "none"
IsFrom == lastAction.type = "CHANGE_DATE_FROM_VALUE"
IsTo == lastAction.type = "CHANGE_DATE_TO_VALUE"
RangeMin == moments[DATE_RANGE_MIN_VALUE]
RangeMax == moments[DATE_RANGE_MAX_VALUE]
\* The value of the store's state, and of the state passed to the last call.
Cur == View(Heap, store)
Prior == View(Heap, prior)

\* C1 (silent rejection): after CHANGE_DATE_FROM_VALUE with a candidate strictly
\* before the range minimum, or CHANGE_DATE_TO_VALUE with a candidate strictly
\* after the range maximum, the store's state has the dateFrom, dateTo and points
\* of the state the handler was given. (The handlers have no throwing path.)
C1_SilentRejection ==
  Dispatched =>
    /\ (IsFrom /\ lastAction.payload < RangeMin => Cur = priorView)
    /\ (IsTo /\ lastAction.payload > RangeMax => Cur = priorView)

\* A candidate before the minimum was dispatched on a window already moved.
C1_Witness ==
  /\ Dispatched /\ IsFrom /\ lastAction.payload < RangeMin
  /\ priorView.dateFrom # moments[DATE_WINDOW_FROM_VALUE]

\* C2 (acceptance): CHANGE_DATE_FROM_VALUE with a candidate in [min, max], bounds
\* included, sets dateFrom to the candidate and keeps dateTo and points;
\* CHANGE_DATE_TO_VALUE with a candidate not after max sets dateTo to the
\* candidate and keeps dateFrom and points.
C2_Acceptance ==
  Dispatched =>
    /\ (IsFrom /\ RangeMin <= lastAction.payload /\ lastAction.payload <= RangeMax
          => /\ Cur.dateFrom = lastAction.payload
             /\ Cur.dateTo = priorView.dateTo
             /\ Cur.points = priorView.points)
    /\ (IsTo /\ lastAction.payload <= RangeMax
          => /\ Cur.dateTo = lastAction.payload
             /\ Cur.dateFrom = priorView.dateFrom
             /\ Cur.points = priorView.points)

\* The candidate equal to the range minimum was dispatched as the new dateFrom,
\* on a state whose dateFrom was another time.
C2_Witness ==
  /\ Dispatched /\ IsFrom /\ lastAction.payload = RangeMin
  /\ priorView.dateFrom # RangeMin

\* C3 (valid-range invariant): in every state of the store both dateFrom and
\* dateTo lie within [min, max].
C3_ValidRange ==
  Ready =>
    /\ RangeMin <= Cur.dateFrom /\ Cur.dateFrom <= RangeMax
    /\ RangeMin <= Cur.dateTo /\ Cur.dateTo <= RangeMax

\* C4 (immutability of the prior state): after every command the state object
\* the handler was given still holds the same references and still has the
\* same dateFrom, dateTo and points as when it was passed in.
C4_PriorUntouched ==
  Dispatched =>
    /\ stateObjs[prior] = priorObj
    /\ Prior = priorView

\* An accepted command returned a new state object.
C4_Witness == Dispatched /\ store # prior /\ Cur # priorView

\* C5 (deep independence): after an accepted command the new state shares no
\* object with the state the handler was given.
C5_DeepIndependent ==
  Dispatched /\ store # prior =>
    Reach(Heap, store) \cap Reach(Heap, prior) = {}

\* C7 (points are fixed): in every state of the store the points sequence equals,
\* element for element, the sequence generated when the initial state was built.
C7_PointsFixed == Ready => Cur.points = generated

\* Two accepted commands have replaced the initial state object.
C7_Witness ==
  /\ Dispatched /\ store # prior /\ prior # initialState
  /\ Cur.dateFrom > moments[DATE_WINDOW_TO_VALUE]

\* C8 (ordering not enforced): CHANGE_DATE_FROM_VALUE with a candidate after the
\* current dateTo and not before the range minimum is accepted, which leaves
\* dateFrom strictly after dateTo.
C8_OrderNotEnforced ==
  Dispatched /\ IsFrom /\ lastAction.payload >= RangeMin
             /\ lastAction.payload > priorView.dateTo
    => Cur.dateFrom = lastAction.payload /\ Cur.dateFrom > Cur.dateTo

\* One command on the initial state (window 05-03 .. 05-05) has left dateFrom
\* after dateTo.
C8_Witness ==
  /\ Dispatched /\ prior = initialState
  /\ priorView.dateFrom = moments[DATE_WINDOW_FROM_VALUE]
  /\ priorView.dateTo = moments[DATE_WINDOW_TO_VALUE]
  /\ Cur.dateFrom > Cur.dateTo

\* The two handlers applied to the store's state in both orders give states of
\* equal value (a and b are the candidates of the from and of the to command).
CommuteAt(a, b) ==
  \A pa \in {NewMoment(Heap, a)} :
  \A pb \in {NewMoment(pa.h, b)} :
  \A f1 \in {ChangeDateFromHandler(pb.h, store, pa.addr)} :
  \A f2 \in {ChangeDateToHandler(f1.h, f1.ret, pb.addr)} :
  \A t1 \in {ChangeDateToHandler(pb.h, store, pb.addr)} :
  \A t2 \in {ChangeDateFromHandler(t1.h, t1.ret, pa.addr)} :
    View(f2.h, f2.ret) = View(t2.h, t2.ret)

\* C9 (independence): from every state of the store and for all candidates a, b,
\* CHANGE_DATE_FROM_VALUE(a) then CHANGE_DATE_TO_VALUE(b) gives the same dateFrom,
\* dateTo and points as the opposite order; and dateFrom is the candidate of the
\* last CHANGE_DATE_FROM_VALUE not before the minimum (the initial dateFrom if
\* none), dateTo that of the last CHANGE_DATE_TO_VALUE not after the maximum.
C9_Commute ==
  Ready =>
    /\ \A a \in Candidates : \A b \in Candidates : CommuteAt(a, b)
    /\ Cur.dateFrom = lastFrom
    /\ Cur.dateTo = lastTo

\* A rejected command follows accepted ones of both types, with the window
\* reversed.
C9_Witness ==
  /\ Dispatched /\ IsTo /\ lastAction.payload > RangeMax
  /\ lastFrom # moments[DATE_WINDOW_FROM_VALUE]
  /\ lastTo # moments[DATE_WINDOW_TO_VALUE]
  /\ lastFrom > lastTo

----------------------------------------------------------------------------
(* Properties of randomDateTimePoints.                                     *)

CeilDiv(n, d) == (n + d - 1) \div d

\* C6 (series generation): the generated sequence has
\* N = ceil((max - min) / 5 minutes) entries; entry i (from 0) has time
\* min + 5 i and value 180 * hour(time) + minute(time); every time is before
\* max and times ascend strictly; with the dates of the source there are 7776
\* entries, the first of value 0 and the second of value 5.
C6_SeriesGenerated ==
  Ready =>
    LET N == CeilDiv(RangeMax - RangeMin, SAMPLES_EVERY_MINUTE)
    IN /\ Len(generated) = N
       /\ \A i \in 1..N :
            /\ generated[i].time = RangeMin + (i - 1) * SAMPLES_EVERY_MINUTE
            /\ generated[i].value =
                 180 * hours(generated[i].time) + minutes(generated[i].time)
            /\ generated[i].time < RangeMax
            /\ i > 1 => generated[i - 1].time < generated[i].time
       /\ (RangeMax = RealCalendar.max =>
             /\ N = 7776
             /\ generated[1] = [time |-> 0, value |-> 0]
             /\ generated[2] = [time |-> 5, value |-> 5])

\* The series of the source's dates has been generated (it passes a midnight).
C6_Witness ==
  /\ Ready /\ RangeMax = RealCalendar.max /\ Len(generated) = 7776
  /\ generated[289].value = 0

----------------------------------------------------------------------------
(* Properties of randomDotsScreenReducer.                                  *)

\* The fields of a state other than f, with their values.
Others(state, f) == [g \in DOMAIN state \ {f} |-> state[g]]

\* C10 (one field per action): a width, height or text action sets that field to
\* its payload and leaves every other field as it was; any other action leaves
\* the state as it was; so color is always 'lightblue' and width, height and
\* text are the payloads of the last actions that set them (text absent, width
\* 800 and height 600 if none did).
C10_OneFieldPerAction ==
  /\ (dotsAction.type = "BLUE_SCR_SET_WIDTH" =>
        dots.width = dotsAction.width /\ Others(dots, "width") = Others(dotsPrior, "width"))
  /\ (dotsAction.type = "BLUE_SCR_SET_HEIGHT" =>
        dots.height = dotsAction.height /\ Others(dots, "height") = Others(dotsPrior, "height"))
  /\ (dotsAction.type = "BLUE_SCR_SET_TEXT" =>
        dots.text = dotsAction.text /\ Others(dots, "text") = Others(dotsPrior, "text"))
  /\ (dotsAction.type = "OTHER" => dots = dotsPrior)
  /\ dots.color = "lightblue"
  /\ dots.width = dotsLast.width
  /\ dots.height = dotsLast.height
  /\ IF dotsLast.text = <<>> THEN "text" \notin DOMAIN dots
     ELSE "text" \in DOMAIN dots /\ dots.text = dotsLast.text[1]

\* Every field has been set and an action of another type came last.
C10_Witness ==
  /\ dotsAction.type = "OTHER"
  /\ dots.width # 800 /\ dots.height # 600 /\ dots.height # dots.width
  /\ "text" \in DOMAIN dots

====
